---- MODULE Spec2Model ----
(***************************************************************************)
(* Model of the retail-profile pipeline: main() with the setup of the      *)
(* store, the relational store created by DatabaseControl.create_tables,   *)
(* the trigger function generate_customer_json on loyalty_members, the     *)
(* writer (generate_and_store_profiles / insert_profile), the notification *)
(* listener (start_listening) in its daemon thread and the file sink       *)
(* (Transform.save_json_to_file).                                          *)
(*                                                                         *)
(* Spec is the whole pipeline with another client of the store. SpecDates  *)
(* runs the date fields of the document over ranges of dates, and          *)
(* SpecTwoWriters runs two instances of the writer loop on one store.      *)
(*                                                                         *)
(* Every connection is opened by get_connection, which sets                *)
(* ISOLATION_LEVEL_AUTOCOMMIT: each SQL statement is its own transaction,  *)
(* so one statement (with the trigger it fires) is one atomic step here.   *)
(*                                                                         *)
(* insert_profile runs its four statements inside "with conn:". The        *)
(* repository pins no psycopg2 version, and the two lines of releases      *)
(* differ: before 2.9 the block does nothing on an autocommit connection;  *)
(* from 2.9 on it opens a transaction also on an autocommit connection,    *)
(* committed when the block is left normally and rolled back when it is    *)
(* left by an exception. txWith, chosen in Init, is the build at hand.     *)
(***************************************************************************)
EXTENDS Integers, Sequences, FiniteSets, TLC

(* ---- bounds of the model ---- *)
MaxCustomers == 2      \* customer_id values 1..MaxCustomers
NumProfiles == 2       \* profiles produced in one run (--num-profiles)
MaxDirect == 2         \* statements issued by a client other than insert_profile

CustomerIds == 1..MaxCustomers

(* Column values that the trigger casts are text: sequences of characters. *)
DigitChars == {"0", "1", "2", "3", "4", "5", "6", "7", "8", "9"}
ShoeSizes == {<<"4", "2">>, <<"X", "L">>}
LoyaltyNumbers == {<<"7">>, <<"8">>}

Null == "NULL"

\* marketing_consent BOOLEAN DEFAULT false: the column has no NOT NULL.
SqlBooleans == {"true", "false", Null}

\* psycopg2 adapts a Python bool to the SQL literal true / false.
AdaptBoolean(b) == IF b THEN "true" ELSE "false"

DigitVal(ch) ==
    CASE ch = "0" -> 0 [] ch = "1" -> 1 [] ch = "2" -> 2 [] ch = "3" -> 3
      [] ch = "4" -> 4 [] ch = "5" -> 5 [] ch = "6" -> 6 [] ch = "7" -> 7
      [] ch = "8" -> 8 [] ch = "9" -> 9

DigitOf(n) == CHOOSE ch \in DigitChars : DigitVal(ch) = n

(* CAST(text AS INTEGER / BIGINT): succeeds on a non-empty digit string.   *)
CastableToInteger(s) == Len(s) > 0 /\ \A i \in 1..Len(s) : s[i] \in DigitChars

RECURSIVE CastToInteger(_)
CastToInteger(s) ==
    IF Len(s) = 0 THEN 0
    ELSE 10 * CastToInteger(SubSeq(s, 1, Len(s) - 1)) + DigitVal(s[Len(s)])

VARIABLES
    customers,               \* table customers
    retail_preferences,      \* table retail_preferences
    marketing_preferences,   \* table marketing_preferences
    loyalty_members,         \* table loyalty_members
    customer_json_profiles,  \* table customer_json_profiles, in insertion order
    channel,                 \* every notification published on the channel so far
    wpc, windex, profile, inserted_profile, latest_json,   \* writer flow
    read_for,                \* the customer inserted before the last read of latest_json
    w2pc, w2index, profile2, inserted_profile2, latest_json2, read_for2,
                             \* the same for a second instance of the program
    direct,                  \* statements issued so far by another client
    lpc, listening, sock, notifies, lerror,                \* listener flow
    lraised,                 \* the exception that left start_listening
    polled, attempts, received, dispatched,                \* listener history
    iteration,               \* how the wait of this pass of the loop ended
    mpc,                     \* position of main()
    setup_error,             \* the step of DatabaseControl.__init__ that raised
    txWith,                  \* psycopg2 >= 2.9: "with conn" is a transaction
    date_of_birth,           \* customers.date_of_birth of the row being assembled
    current_date,            \* the server's current_date when the trigger runs
    person,                  \* the date fields of the assembled document
    files,                   \* the output directory: file name and contents
    clock                    \* datetime.now(), in whole seconds

storeVars == <<customers, retail_preferences, marketing_preferences,
               loyalty_members, customer_json_profiles, channel>>
writerVars == <<wpc, windex, profile, inserted_profile, latest_json, read_for>>
writer2Vars == <<w2pc, w2index, profile2, inserted_profile2, latest_json2, read_for2>>
listenerVars == <<lpc, listening, notifies, lerror, lraised, polled, attempts, received,
                  dispatched, iteration>>
mainVars == <<mpc, setup_error, txWith>>
dateVars == <<date_of_birth, current_date, person>>
sinkVars == <<files, clock>>
restVars == <<mainVars, dateVars, sinkVars, writer2Vars>>
vars == <<storeVars, writerVars, direct, listenerVars, sock, restVars>>

(* ---- rows ----                                                          *)
(* Of each table the model follows the key columns and the columns the    *)
(* trigger casts or recodes. Two fields are bookkeeping only, read by no   *)
(* constraint and no query: "by" is the number of the insert_profile call  *)
(* that wrote the row (0 for a row written by another client), and "asm"   *)
(* of a loyalty_members row is the outcome of the trigger run of its       *)
(* INSERT.                                                                 *)
CustomerRow(cid, by) == [customer_id |-> cid, by |-> by]
RetailRow(cid, shoe, by) == [customer_id |-> cid, shoe_size |-> shoe, by |-> by]
MarketingRow(cid, consent, by) ==
    [customer_id |-> cid, marketing_consent |-> consent, by |-> by]
LoyaltyRow(lid, cid, by) ==
    [loyalty_number_id |-> lid, customer_id |-> cid, by |-> by, asm |-> "none"]

Ids(table) == {row.customer_id : row \in table}

(* ---- constraints declared by create_tables ---- *)

\* customers: customer_id PRIMARY KEY. (email UNIQUE and the NOT NULL and
\* length limits are further ways for the same INSERT to be rejected; the
\* model has the rejection through the key.)
CustomerConstraintsOK(row) ==
    row.customer_id \notin Ids(customers)

\* retail_preferences: customer_id PRIMARY KEY REFERENCES customers
RetailConstraintsOK(row) ==
    /\ row.customer_id \notin Ids(retail_preferences)
    /\ row.customer_id \in Ids(customers)

\* marketing_preferences: customer_id PRIMARY KEY REFERENCES customers
MarketingConstraintsOK(row) ==
    /\ row.customer_id \notin Ids(marketing_preferences)
    /\ row.customer_id \in Ids(customers)

\* A plausible slip: the UNIQUE on loyalty_members.customer_id left out.
LoyaltyConstraintsNoUnique(row) ==
    /\ row.loyalty_number_id \notin {l.loyalty_number_id : l \in loyalty_members}
    /\ row.customer_id \in Ids(customers)

\* loyalty_members: loyalty_number_id PRIMARY KEY,
\*                  customer_id UNIQUE REFERENCES customers
LoyaltyConstraintsOK(row) ==
    /\ row.loyalty_number_id \notin {l.loyalty_number_id : l \in loyalty_members}
    /\ row.customer_id \notin Ids(loyalty_members)
    /\ row.customer_id \in Ids(customers)

(* ---- the trigger function generate_customer_json ---- *)

\* A plausible slip: retail_preferences joined with LEFT JOIN, so a customer
\* without a retail row still yields a joined row (shoe size NULL -> 0 here).
JoinRowsLeftRetail(cid, loyalty) ==
    { [c |-> c, r |-> RetailRow(cid, <<"0">>, 0), m |-> m, l |-> l] :
        c \in {x \in customers : x.customer_id = cid},
        m \in {x \in marketing_preferences : x.customer_id = cid},
        l \in {x \in loyalty : x.customer_id = cid} }

\* FROM customers c JOIN retail_preferences r JOIN marketing_preferences m
\* JOIN loyalty_members l ... WHERE l.customer_id = NEW.customer_id
JoinRows(cid, loyalty) ==
    { [c |-> c, r |-> r, m |-> m, l |-> l] :
        c \in {x \in customers : x.customer_id = cid},
        r \in {x \in retail_preferences : x.customer_id = cid},
        m \in {x \in marketing_preferences : x.customer_id = cid},
        l \in {x \in loyalty : x.customer_id = cid} }

\* The casts evaluated while building the document of one joined row.
CastsOK(j) ==
    /\ CastableToInteger(j.l.loyalty_number_id)
    /\ CastableToInteger(j.r.shoe_size)

\* CASE WHEN cond THEN a ELSE b END: the ELSE branch is taken when cond is
\* false and when it is NULL.
CaseWhen(cond, a, b) == IF cond = "true" THEN a ELSE b

\* A plausible slip: 'customerId' taken from the loyalty number.
BuildDocumentLoyaltyAsId(j) ==
    [customerId |-> CastToInteger(j.l.loyalty_number_id),
     loyaltyId  |-> CastToInteger(j.l.loyalty_number_id),
     shoeSize   |-> CastToInteger(j.r.shoe_size),
     val        |-> IF j.m.marketing_consent = "true" THEN "y" ELSE "n"]

\* A plausible slip: marketing_consent put into the document as it is.
BuildDocumentConsentUncoded(j) ==
    [customerId |-> j.c.customer_id,
     loyaltyId  |-> CastToInteger(j.l.loyalty_number_id),
     shoeSize   |-> CastToInteger(j.r.shoe_size),
     val        |-> j.m.marketing_consent]

\* jsonb_build_object(...) for one joined row (the fields the model follows).
BuildDocument(j) ==
    [customerId |-> j.c.customer_id,
     loyaltyId  |-> CastToInteger(j.l.loyalty_number_id),
     shoeSize   |-> CastToInteger(j.r.shoe_size),
     val        |-> CaseWhen(j.m.marketing_consent, "y", "n")]

RECURSIVE SetToSeq(_)
SetToSeq(S) ==
    IF S = {} THEN <<>>
    ELSE LET x == CHOOSE y \in S : TRUE IN <<x>> \o SetToSeq(S \ {x})

\* The rows INSERT INTO customer_json_profiles ... SELECT would add.
NewDocumentRows(cid, loyalty) ==
    SetToSeq({ [customer_id |-> j.c.customer_id, json_data |-> BuildDocument(j)] :
               j \in JoinRows(cid, loyalty) })

DocIds(docs) == {docs[i].customer_id : i \in 1..Len(docs)}

\* customer_json_profiles: customer_id PRIMARY KEY
DocumentKeysOK(docs, new) ==
    /\ \A i \in 1..Len(new) : new[i].customer_id \notin DocIds(docs)
    /\ \A i, k \in 1..Len(new) : new[i].customer_id = new[k].customer_id => i = k

RECURSIVE IntegerToText(_)
IntegerToText(n) ==
    IF n < 10 THEN <<DigitOf(n)>>
    ELSE Append(IntegerToText(n \div 10), DigitOf(n % 10))

\* JSON text: the members of the object in order, each with its key, the
\* kind of its literal ("string": in quotes, "number": bare digits) and the
\* characters of the literal.
JsonMember(key, kind, literal) == [key |-> key, kind |-> kind, literal |-> literal]

\* json_data::text. customerId is a VARCHAR column, so a JSON string; the
\* casts of the trigger made loyaltyId and shoeSize JSON numbers.
JsonbToText(doc) ==
    << JsonMember("customerId", "string", IntegerToText(doc.customerId)),
       JsonMember("loyaltyId", "number", IntegerToText(doc.loyaltyId)),
       JsonMember("shoeSize", "number", IntegerToText(doc.shoeSize)),
       JsonMember("val", "string", <<doc.val>>) >>

\* The empty text pg_notify uses for a NULL payload.
EmptyText == <<>>

\* (SELECT json_data::text FROM customer_json_profiles WHERE customer_id = NEW.customer_id)
\* as pg_notify receives it: NULL (no such row) is sent as the empty payload.
NotifyPayload(docs, cid) ==
    LET hit == {i \in 1..Len(docs) : docs[i].customer_id = cid} IN
    IF hit = {} THEN EmptyText
    ELSE JsonbToText(docs[CHOOSE i \in hit : TRUE].json_data)

\* Outcome of the trigger for NEW = row, run against the tables with row added.
\*   "failed": an error was raised inside the function;
\*   "empty" : the join had no row, nothing was stored;
\*   "ok"    : a document was stored.
Assembly(row) ==
    LET loyalty == loyalty_members \cup {row}
        joined  == JoinRows(row.customer_id, loyalty)
    IN  IF \E j \in joined : ~CastsOK(j) THEN "failed"
        ELSE IF ~DocumentKeysOK(customer_json_profiles,
                                NewDocumentRows(row.customer_id, loyalty)) THEN "failed"
        ELSE IF joined = {} THEN "empty"
        ELSE "ok"

\* A plausible slip: the error of the trigger function swallowed, so the
\* statement commits although assembly failed.
StatementCommitsAlways(constraintsOK, assembly) == constraintsOK

\* AFTER INSERT ... FOR EACH ROW trigger: it runs in the statement's
\* transaction, so an error in it aborts the INSERT as well.
StatementCommits(constraintsOK, assembly) ==
    constraintsOK /\ assembly # "failed"

LoyaltyInsertOK(row) ==
    StatementCommits(LoyaltyConstraintsOK(row),
                     IF LoyaltyConstraintsOK(row) THEN Assembly(row) ELSE "none")

(* ---- the date fields of the document ---- *)

FirstYear == 2004      \* first year of the dates the model draws
BirthSpan == 1         \* dates of birth in FirstYear .. FirstYear + BirthSpan
TodaySpan == 1         \* current dates up to TodaySpan years after the last birth year

IsLeap(y) == (y % 4 = 0 /\ y % 100 # 0) \/ y % 400 = 0

DaysIn(m, y) ==
    IF m = 2 THEN (IF IsLeap(y) THEN 29 ELSE 28)
    ELSE IF m \in {4, 6, 9, 11} THEN 30 ELSE 31

Dates(years) ==
    {dt \in [y : years, m : 1..12, d : 1..31] : dt.d <= DaysIn(dt.m, dt.y)}

NotAfter(a, b) ==
    \/ a.y < b.y
    \/ a.y = b.y /\ a.m < b.m
    \/ a.y = b.y /\ a.m = b.m /\ a.d <= b.d

\* to_char(n, '0..0') with width digits: zero-padded decimal text
RECURSIVE ZeroPadded(_, _)
ZeroPadded(n, width) ==
    IF width = 0 THEN <<>>
    ELSE Append(ZeroPadded(n \div 10, width - 1), DigitOf(n % 10))

\* to_char(c.date_of_birth, 'MM-DD')
ToCharMMDD(dt) == ZeroPadded(dt.m, 2) \o <<"-">> \o ZeroPadded(dt.d, 2)

\* to_char(c.date_of_birth, 'YYYY')
ToCharYYYY(dt) == ZeroPadded(dt.y, 4)

\* A plausible slip: the age taken as the difference of the calendar years.
AgeYearsOfCalendarYears(dob, today) == today.y - dob.y

\* EXTRACT(YEAR FROM age(dob)) for dob not after today. age() subtracts
\* field by field (today - dob) and then carries: a negative day count
\* borrows one month, a negative month count borrows one year.
AgeYears(dob, today) ==
    LET days   == today.d - dob.d
        months == (today.m - dob.m) - (IF days < 0 THEN 1 ELSE 0)
    IN  (today.y - dob.y) - (IF months < 0 THEN 1 ELSE 0)

NoPerson == [birthYear |-> 0, birthDayAndMonth |-> <<>>, age |-> 0]

\* 'person'.'birthDayAndMonth', 'person'.'birthYear' and
\* 'individualCharacteristics'.'core'.'age' of jsonb_build_object
BuildPerson(dob, today) ==
    [birthYear        |-> CastToInteger(ToCharYYYY(dob)),
     birthDayAndMonth |-> ToCharMMDD(dob),
     age              |-> AgeYears(dob, today)]

(* ---- INSERT statements (each one transaction under autocommit) ---- *)

WrittenBy(table, n) == {row \in table : row.by = n}

Notification(cid, payload) == [customer_id |-> cid, payload |-> payload]

\* INSERT INTO customers
ExecInsertCustomers(row) ==
    LET ok == CustomerConstraintsOK(row) IN
    /\ customers' = IF ok THEN customers \cup {row} ELSE customers
    /\ UNCHANGED <<retail_preferences, marketing_preferences, loyalty_members,
                   customer_json_profiles, channel, sock>>

\* INSERT INTO retail_preferences
ExecInsertRetail(row) ==
    LET ok == RetailConstraintsOK(row) IN
    /\ retail_preferences' = IF ok THEN retail_preferences \cup {row}
                             ELSE retail_preferences
    /\ UNCHANGED <<customers, marketing_preferences, loyalty_members,
                   customer_json_profiles, channel, sock>>

\* INSERT INTO marketing_preferences
ExecInsertMarketing(row) ==
    LET ok == MarketingConstraintsOK(row) IN
    /\ marketing_preferences' = IF ok THEN marketing_preferences \cup {row}
                                ELSE marketing_preferences
    /\ UNCHANGED <<customers, retail_preferences, loyalty_members,
                   customer_json_profiles, channel, sock>>

\* INSERT INTO loyalty_members, with the trigger generate_customer_json it
\* fires. On commit the notification reaches every connection that has
\* executed LISTEN; with no listener it is dropped.
ExecInsertLoyalty(row) ==
    LET cOK  == LoyaltyConstraintsOK(row)
        asm  == IF cOK THEN Assembly(row) ELSE "none"
        ok   == StatementCommits(cOK, asm)
        docs == IF ok /\ asm = "ok"
                THEN customer_json_profiles
                       \o NewDocumentRows(row.customer_id, loyalty_members \cup {row})
                ELSE customer_json_profiles
        published == ok /\ asm \in {"ok", "empty"}
        payload == NotifyPayload(docs, row.customer_id)
    IN
    /\ loyalty_members' = IF ok THEN loyalty_members \cup {[row EXCEPT !.asm = asm]}
                          ELSE loyalty_members
    /\ customer_json_profiles' = docs
    /\ channel' = IF published
                  THEN Append(channel, Notification(row.customer_id, payload))
                  ELSE channel
    /\ sock' = IF published /\ listening THEN Append(sock, payload) ELSE sock
    /\ UNCHANGED <<customers, retail_preferences, marketing_preferences>>

(* ---- the writer flow: generate_and_store_profiles and insert_profile ---- *)

\* "with conn:" left by an exception when the block is a transaction: the
\* rows written by call n so far are rolled back.
Rollback(n) ==
    /\ customers' = customers \ WrittenBy(customers, n)
    /\ retail_preferences' = retail_preferences \ WrittenBy(retail_preferences, n)
    /\ marketing_preferences' =
           marketing_preferences \ WrittenBy(marketing_preferences, n)
    /\ UNCHANGED <<loyalty_members, customer_json_profiles, channel, sock>>

\* The transaction of insert_profile is open: it has written rows that are
\* not committed yet. A statement of another connection that meets them
\* either does not see them or waits for the end of the transaction, so it
\* takes effect before the transaction or after it; the model lets the
\* other connections act only outside the transaction.
TxOpen == txWith /\ wpc \in {"retail", "marketing", "loyalty"}
TxOpen2 == txWith /\ w2pc \in {"retail", "marketing", "loyalty"}

\* The store is set up and main is in generate_and_store_profiles.
Generating == mpc = "generate"

Profiles ==
    [customer_id : CustomerIds, shoe_size : ShoeSizes,
     consent : BOOLEAN, loyalty_number_id : LoyaltyNumbers]

NoProfile ==
    [customer_id |-> 0, shoe_size |-> <<>>,
     consent |-> FALSE, loyalty_number_id |-> <<>>]

\* for (profile, delay) in generator.generate_profiles(num_profiles):
\*     db_control.insert_profile(profile)   -- entered, connection opened
W_Generate ==
    /\ Generating
    /\ wpc = "idle"
    /\ windex < NumProfiles
    /\ \E p \in Profiles : profile' = p
    /\ windex' = windex + 1
    /\ inserted_profile' = Null
    /\ wpc' = "customers"
    /\ UNCHANGED <<storeVars, latest_json, read_for, direct, listenerVars, sock>>
    /\ UNCHANGED restVars

\* cur.execute(customer_sql, customer_data); psycopg2.Error -> return False
W_InsertCustomers ==
    LET row == CustomerRow(profile.customer_id, windex) IN
    /\ Generating /\ ~TxOpen2
    /\ wpc = "customers"
    /\ ExecInsertCustomers(row)
    /\ IF CustomerConstraintsOK(row)
       THEN wpc' = "retail" /\ UNCHANGED inserted_profile
       ELSE wpc' = "returned" /\ inserted_profile' = FALSE
    /\ UNCHANGED <<windex, profile, latest_json, read_for, direct, listenerVars>>
    /\ UNCHANGED restVars

\* cur.execute(retail_sql, retail_data)
W_InsertRetail ==
    LET row == RetailRow(profile.customer_id, profile.shoe_size, windex) IN
    /\ Generating /\ ~TxOpen2
    /\ wpc = "retail"
    /\ IF txWith /\ ~RetailConstraintsOK(row)
       THEN Rollback(windex) ELSE ExecInsertRetail(row)
    /\ IF RetailConstraintsOK(row)
       THEN wpc' = "marketing" /\ UNCHANGED inserted_profile
       ELSE wpc' = "returned" /\ inserted_profile' = FALSE
    /\ UNCHANGED <<windex, profile, latest_json, read_for, direct, listenerVars>>
    /\ UNCHANGED restVars

\* cur.execute(marketing_sql, marketing_data)
W_InsertMarketing ==
    LET row == MarketingRow(profile.customer_id, AdaptBoolean(profile.consent),
                            windex) IN
    /\ Generating /\ ~TxOpen2
    /\ wpc = "marketing"
    /\ IF txWith /\ ~MarketingConstraintsOK(row)
       THEN Rollback(windex) ELSE ExecInsertMarketing(row)
    /\ IF MarketingConstraintsOK(row)
       THEN wpc' = "loyalty" /\ UNCHANGED inserted_profile
       ELSE wpc' = "returned" /\ inserted_profile' = FALSE
    /\ UNCHANGED <<windex, profile, latest_json, read_for, direct, listenerVars>>
    /\ UNCHANGED restVars

\* cur.execute(loyalty_sql, loyalty_data); return True
W_InsertLoyalty ==
    LET row == LoyaltyRow(profile.loyalty_number_id, profile.customer_id, windex) IN
    /\ Generating /\ ~TxOpen2
    /\ wpc = "loyalty"
    /\ IF txWith /\ ~LoyaltyInsertOK(row)
       THEN Rollback(windex) ELSE ExecInsertLoyalty(row)
    /\ inserted_profile' = LoyaltyInsertOK(row)
    /\ wpc' = "returned"
    /\ UNCHANGED <<windex, profile, latest_json, read_for, direct, listenerVars>>
    /\ UNCHANGED restVars

\* A plausible slip: ORDER BY last_updated ASC, the oldest document.
get_oldest_profile ==
    IF Len(customer_json_profiles) = 0 THEN Null
    ELSE customer_json_profiles[1].json_data

\* SELECT json_data FROM customer_json_profiles ORDER BY last_updated DESC LIMIT 1
get_latest_profile ==
    IF Len(customer_json_profiles) = 0 THEN Null
    ELSE customer_json_profiles[Len(customer_json_profiles)].json_data

\* A plausible slip: insert_profile re-raises after logging, so a failed
\* insert leaves the loop of generate_and_store_profiles.
AfterInsertReraise(ok) == IF ok THEN "idle" ELSE "raised"

\* insert_profile returns False on psycopg2.Error; either way the loop goes
\* on to its next iteration.
AfterInsert(ok) == "idle"

\* if inserted_profile: latest_json = db_control.get_latest_profile()
\* else: logger.error("Failed to insert profile")
W_AfterInsert ==
    /\ Generating
    /\ wpc = "returned"
    /\ latest_json' = IF inserted_profile = TRUE THEN get_latest_profile
                      ELSE latest_json
    /\ read_for' = IF inserted_profile = TRUE THEN profile.customer_id ELSE read_for
    /\ wpc' = AfterInsert(inserted_profile = TRUE)
    /\ profile' = NoProfile
    /\ inserted_profile' = Null
    /\ UNCHANGED <<storeVars, windex, direct, listenerVars, sock>>
    /\ UNCHANGED restVars

(* ---- another client of the store ("entries from somewhere else") ----   *)
(* It issues single INSERT statements against the same tables, in any      *)
(* order, so a table of a customer can be skipped. The store outlives the  *)
(* run of main, so it acts whenever the store has been set up.             *)

StoreReady == mpc \in {"start_listener", "generate", "exited"}
DirectMayAct == StoreReady /\ ~TxOpen /\ ~TxOpen2 /\ direct < MaxDirect

D_InsertCustomers ==
    /\ DirectMayAct
    /\ \E cid \in CustomerIds : ExecInsertCustomers(CustomerRow(cid, 0))
    /\ direct' = direct + 1
    /\ UNCHANGED <<writerVars, listenerVars>>
    /\ UNCHANGED restVars

D_InsertRetail ==
    /\ DirectMayAct
    /\ \E cid \in CustomerIds, sh \in ShoeSizes : ExecInsertRetail(RetailRow(cid, sh, 0))
    /\ direct' = direct + 1
    /\ UNCHANGED <<writerVars, listenerVars>>
    /\ UNCHANGED restVars

D_InsertMarketing ==
    /\ DirectMayAct
    /\ \E cid \in CustomerIds, b \in SqlBooleans :
          ExecInsertMarketing(MarketingRow(cid, b, 0))
    /\ direct' = direct + 1
    /\ UNCHANGED <<writerVars, listenerVars>>
    /\ UNCHANGED restVars

D_InsertLoyalty ==
    /\ DirectMayAct
    /\ \E cid \in CustomerIds, lid \in LoyaltyNumbers :
          ExecInsertLoyalty(LoyaltyRow(lid, cid, 0))
    /\ direct' = direct + 1
    /\ UNCHANGED <<writerVars, listenerVars>>
    /\ UNCHANGED restVars

(* ---- the listener flow: start_listening(callback) ----                  *)
(* sock     : notifications delivered to the listening connection that     *)
(*            psycopg2 has not read yet                                    *)
(* notifies : the list _conn.notifies                                      *)
(* History: received = everything ever appended to _conn.notifies, in      *)
(* order; dispatched = one entry per pass of the inner loop; polled and    *)
(* attempts count the batch found by the last poll() and the passes since. *)

\* The listener is a daemon thread of the process of main: it runs from
\* listener_thread.start() until main returns.
ThreadAlive == mpc = "generate"

\* json.loads(notify.payload): the empty text is not a JSON document.
Decodable(payload) == Len(payload) > 0

\* Python values: str and int.
PyStr(s) == [type |-> "str", s |-> s, n |-> 0]
PyInt(n) == [type |-> "int", s |-> <<>>, n |-> n]

\* json.loads / json.load: a dict from the keys to the values of the members.
JsonLoads(text) ==
    [k \in {text[i].key : i \in 1..Len(text)} |->
        LET member == text[CHOOSE i \in 1..Len(text) : text[i].key = k] IN
        IF member.kind = "number" THEN PyInt(CastToInteger(member.literal))
        ELSE PyStr(member.literal)]

\* A plausible slip: every value converted with str() before it is written.
JsonDumpAllStrings(data) ==
    LET keys == SetToSeq(DOMAIN data) IN
    [i \in 1..Len(keys) |->
        LET v == data[keys[i]] IN
        JsonMember(keys[i], "string",
                   IF v.type = "int" THEN IntegerToText(v.n) ELSE v.s)]

\* json.dump(profile_data, f, indent=2, ensure_ascii=False): the members of
\* the dict, an int as a number literal, a str as a string literal.
JsonDump(data) ==
    LET keys == SetToSeq(DOMAIN data) IN
    [i \in 1..Len(keys) |->
        LET v == data[keys[i]] IN
        IF v.type = "int" THEN JsonMember(keys[i], "number", IntegerToText(v.n))
        ELSE JsonMember(keys[i], "string", v.s)]

Unknown == <<"unknown">>

\* data.get('identification', {}).get('customerId', 'unknown')
CustomerIdOf(data) ==
    IF "customerId" \in DOMAIN data THEN data["customerId"].s ELSE Unknown

MaxClock == 2          \* seconds the model's clock can show: 1..MaxClock

\* A plausible slip: the customer id left out of the file name.
FileNameTimestampOnly(data, now) == [customer_id |-> <<>>, timestamp |-> now]

\* f"profile_{customer_id}_{timestamp}.json", timestamp to the second
FileName(data, now) == [customer_id |-> CustomerIdOf(data), timestamp |-> now]

NoFile == [customer_id |-> <<>>, timestamp |-> 0]

\* open(file_path, 'w'): an existing file of that name is replaced.
WriteFile(dir, name, content) ==
    {f \in dir : f.name # name} \cup {[name |-> name, content |-> content]}

\* A pass of "while True": how select.select ended and whether the
\* liveness query SELECT 1 has been sent in this pass.
NoIteration == [wait |-> "none", queried |-> FALSE]

\* A plausible slip: SELECT 1 sent in every pass, whatever select returned.
AfterSelectAlwaysQuery(readable) == "keepalive"

\* if select.select([_conn], [], [], 0.5) == ([], [], []): cur.execute("SELECT 1")
AfterSelect(readable) == IF readable THEN "poll" ELSE "keepalive"

\* A plausible slip: the listener connects again after a connection error.
AfterConnectionErrorReconnect == "start"

\* except psycopg2.Error: log; raise -- start_listening ends
AfterConnectionError == "closed"

\* finally: if _conn: _conn.close() -- what leaves start_listening when the
\* try block was left with exception raised. When get_connection itself
\* raised, the local name _conn was never bound: reading it raises
\* UnboundLocalError, which takes the place of the exception on its way out.
Finally(raised, connBound) == IF connBound THEN raised ELSE "UnboundLocalError"

\* _conn = self.get_connection() raises psycopg2.Error: the except branch
\* logs and re-raises, then the finally block runs.
L_ConnectFailed ==
    /\ ThreadAlive
    /\ lpc = "start"
    /\ lpc' = AfterConnectionError
    /\ lerror' = "connection"
    /\ lraised' = Finally("psycopg2.Error", FALSE)
    /\ UNCHANGED <<storeVars, writerVars, direct, sock, listening, notifies,
                   polled, attempts, received, dispatched, iteration>>
    /\ UNCHANGED restVars

\* _conn = self.get_connection()
L_Connect ==
    /\ ThreadAlive
    /\ lpc = "start"
    /\ lpc' = "connected"
    /\ UNCHANGED <<storeVars, writerVars, direct, sock, listening, notifies, lerror, lraised,
                   polled, attempts, received, dispatched, iteration>>
    /\ UNCHANGED restVars

\* cur.execute("LISTEN we_got_new_amazing_client;")
L_Listen ==
    /\ ThreadAlive
    /\ lpc = "connected"
    /\ listening' = TRUE
    /\ lpc' = "select"
    /\ UNCHANGED <<storeVars, writerVars, direct, sock, notifies, lerror, lraised,
                   polled, attempts, received, dispatched, iteration>>
    /\ UNCHANGED restVars

\* select.select([_conn], [], [], 0.5) == ([], [], []): nothing arrived in 0.5 s
L_SelectTimeout ==
    /\ ThreadAlive
    /\ lpc = "select"
    /\ sock = <<>>
    /\ lpc' = AfterSelect(FALSE)
    /\ UNCHANGED <<storeVars, writerVars, direct, sock, listening, notifies, lerror, lraised,
                   polled, attempts, received, dispatched>>
    /\ iteration' = [wait |-> "timeout", queried |-> FALSE]
    /\ UNCHANGED restVars

\* select.select returns the connection as readable
L_SelectReady ==
    /\ ThreadAlive
    /\ lpc = "select"
    /\ sock # <<>>
    /\ lpc' = AfterSelect(TRUE)
    /\ UNCHANGED <<storeVars, writerVars, direct, sock, listening, notifies, lerror, lraised,
                   polled, attempts, received, dispatched>>
    /\ iteration' = [wait |-> "ready", queried |-> FALSE]
    /\ UNCHANGED restVars

\* cur.execute("SELECT 1"): psycopg2 also collects the notifications that
\* arrived meanwhile into _conn.notifies
L_KeepAlive ==
    /\ ThreadAlive
    /\ lpc = "keepalive"
    /\ notifies' = notifies \o sock
    /\ received' = received \o sock
    /\ sock' = <<>>
    /\ lpc' = "poll"
    /\ UNCHANGED <<storeVars, writerVars, direct, listening, lerror, lraised, polled, attempts,
                   dispatched>>
    /\ iteration' = [iteration EXCEPT !.queried = TRUE]
    /\ UNCHANGED restVars

\* _conn.poll(), then the first test of "while _conn.notifies"
L_Poll ==
    /\ ThreadAlive
    /\ lpc = "poll"
    /\ notifies' = notifies \o sock
    /\ received' = received \o sock
    /\ sock' = <<>>
    /\ polled' = Len(notifies')
    /\ attempts' = 0
    /\ lpc' = IF notifies' # <<>> THEN "drain" ELSE "select"
    /\ iteration' = NoIteration
    /\ UNCHANGED <<storeVars, writerVars, direct, listening, lerror, lraised, dispatched>>
    /\ UNCHANGED restVars

\* A plausible slip: "if _conn.notifies" instead of "while _conn.notifies".
AfterDispatchIfNotWhile(outcome, rest) == "select"

\* A plausible slip: "except psycopg2.Error" around the body, so a decode or
\* handler exception leaves the loop and ends start_listening.
AfterDispatchUncaught(outcome, rest) ==
    IF outcome # "ok" THEN "closed"
    ELSE IF rest # <<>> THEN "drain" ELSE "select"

\* except Exception: log; then the test of "while _conn.notifies" again
AfterDispatch(outcome, rest) ==
    IF rest # <<>> THEN "drain" ELSE "select"

\* A plausible slip: _conn.notifies.pop(), which takes the newest element.
PopIndexLast(list) == Len(list)

\* _conn.notifies.pop(0): the oldest element of the list
PopIndex(list) == 1

RemoveAt(list, i) == SubSeq(list, 1, i - 1) \o SubSeq(list, i + 1, Len(list))

\* One pass of the inner loop: notify = _conn.notifies.pop(0); json.loads;
\* the customerId read for the log line; callback(data). The callback is
\* Transform.save_json_to_file: it names the file after the customer and the
\* second shown by the clock and writes the document, or fails to open the
\* file and re-raises.
L_Dispatch ==
    /\ ThreadAlive
    /\ lpc = "drain"
    /\ notifies # <<>>
    /\ \E raises \in BOOLEAN :
         LET payload == notifies[PopIndex(notifies)]
             outcome == IF ~Decodable(payload) THEN "decode_failed"
                        ELSE IF raises THEN "handler_raised" ELSE "ok"
             next == AfterDispatch(outcome, RemoveAt(notifies, PopIndex(notifies)))
         IN  /\ raises => Decodable(payload)
             /\ \E now \in clock..MaxClock :
                  LET name == IF outcome = "ok"
                              THEN FileName(JsonLoads(payload), now) ELSE NoFile
                  IN  /\ outcome # "ok" => now = clock
                      /\ clock' = now
                      /\ files' = IF outcome = "ok"
                                  THEN WriteFile(files, name,
                                                 JsonDump(JsonLoads(payload)))
                                  ELSE files
                      /\ dispatched' = Append(dispatched,
                            [payload |-> payload, outcome |-> outcome,
                             customer_id |-> IF Decodable(payload)
                                             THEN CustomerIdOf(JsonLoads(payload))
                                             ELSE <<>>,
                             file |-> name])
             /\ lpc' = next
             /\ listening' = IF next = "closed" THEN FALSE ELSE listening
    /\ notifies' = RemoveAt(notifies, PopIndex(notifies))
    /\ attempts' = attempts + 1
    /\ UNCHANGED <<storeVars, writerVars, direct, sock, lerror, lraised, polled, received,
                   iteration>>
    /\ UNCHANGED <<mainVars, dateVars, writer2Vars>>

\* psycopg2.Error from cur.execute("SELECT 1") or _conn.poll(): logged,
\* re-raised, and the finally block closes the connection.
L_ConnectionLost ==
    /\ ThreadAlive
    /\ lpc \in {"keepalive", "poll"}
    /\ lpc' = AfterConnectionError
    /\ lerror' = "connection"
    /\ lraised' = Finally("psycopg2.Error", TRUE)
    /\ listening' = FALSE
    /\ iteration' = NoIteration
    /\ UNCHANGED <<storeVars, writerVars, direct, sock, notifies, polled, attempts,
                   received, dispatched>>
    /\ UNCHANGED restVars

(* ---- main(): setup_database, the listener thread, the writer loop ---- *)

\* A plausible slip: the except clause of a setup step logs and does not
\* re-raise, so __init__ goes on with the next step.
AfterSetupErrorLogged(next) == next

\* except psycopg2.Error: logger.error(...); raise -- out of __init__, out of
\* setup_database, into "except Exception: ... raise" of main.
AfterSetupError(next) == "failed"

SetupStep(step, next) ==
    /\ \E raises \in BOOLEAN :
         IF raises
         THEN mpc' = AfterSetupError(next) /\ setup_error' = step
         ELSE mpc' = next /\ UNCHANGED setup_error
    /\ UNCHANGED <<storeVars, writerVars, direct, listenerVars, sock, txWith, dateVars,
                   sinkVars, writer2Vars>>

\* self.create_database()
M_CreateDatabase ==
    /\ mpc = "create_database"
    /\ SetupStep("create_database", "create_tables")

\* self.create_tables()
M_CreateTables ==
    /\ mpc = "create_tables"
    /\ SetupStep("create_tables", "setup_json_generation")

\* self.setup_json_generation()
M_SetupJsonGeneration ==
    /\ mpc = "setup_json_generation"
    /\ SetupStep("setup_json_generation", "start_listener")

\* listener_thread = threading.Thread(target=db_control.start_listening,
\*                                    ..., daemon=True); listener_thread.start()
M_StartListener ==
    /\ mpc = "start_listener"
    /\ mpc' = "generate"
    /\ lpc' = "start"
    /\ UNCHANGED <<storeVars, writerVars, direct, sock, listening, notifies, lerror, lraised,
                   polled, attempts, received, dispatched, iteration, setup_error,
                   txWith,
                   dateVars, sinkVars, writer2Vars>>

\* generate_and_store_profiles has returned: "Profile generation completed
\* successfully", main returns and the process exits. The daemon thread ends
\* where it is, and its connection with it.
M_Complete ==
    /\ mpc = "generate"
    /\ wpc = "idle"
    /\ windex = NumProfiles
    /\ mpc' = "exited"
    /\ listening' = FALSE
    /\ UNCHANGED <<storeVars, writerVars, direct, sock, lpc, notifies, lerror, lraised,
                   polled, attempts, received, dispatched, iteration, setup_error,
                   txWith,
                   dateVars, sinkVars, writer2Vars>>

(* ---- the system ---- *)

\* The dates of the scenario of the specification.
ExampleBirth == [y |-> 1990, m |-> 3, d |-> 15]
ExampleToday == [y |-> 2024, m |-> 6, d |-> 1]

Init ==
    /\ customers = {}
    /\ retail_preferences = {}
    /\ marketing_preferences = {}
    /\ loyalty_members = {}
    /\ customer_json_profiles = <<>>
    /\ channel = <<>>
    /\ wpc = "idle"
    /\ windex = 0
    /\ profile = NoProfile
    /\ inserted_profile = Null
    /\ latest_json = Null
    /\ read_for = 0
    /\ w2pc = "idle"
    /\ w2index = 0
    /\ profile2 = NoProfile
    /\ inserted_profile2 = Null
    /\ latest_json2 = Null
    /\ read_for2 = 0
    /\ direct = 0
    /\ lpc = "unstarted"
    /\ listening = FALSE
    /\ sock = <<>>
    /\ notifies = <<>>
    /\ lerror = "none"
    /\ lraised = "none"
    /\ polled = 0
    /\ attempts = 0
    /\ received = <<>>
    /\ dispatched = <<>>
    /\ iteration = NoIteration
    /\ mpc = "create_database"
    /\ setup_error = "none"
    /\ txWith \in BOOLEAN
    /\ date_of_birth = ExampleBirth
    /\ current_date = ExampleToday
    /\ person = NoPerson
    /\ files = {}
    /\ clock = 1

Next ==
    \/ M_CreateDatabase
    \/ M_CreateTables
    \/ M_SetupJsonGeneration
    \/ M_StartListener
    \/ M_Complete
    \/ W_Generate
    \/ W_InsertCustomers
    \/ W_InsertRetail
    \/ W_InsertMarketing
    \/ W_InsertLoyalty
    \/ W_AfterInsert
    \/ D_InsertCustomers
    \/ D_InsertRetail
    \/ D_InsertMarketing
    \/ D_InsertLoyalty
    \/ L_ConnectFailed
    \/ L_Connect
    \/ L_Listen
    \/ L_SelectTimeout
    \/ L_SelectReady
    \/ L_KeepAlive
    \/ L_Poll
    \/ L_Dispatch
    \/ L_ConnectionLost

Spec == Init /\ [][Next]_vars

(* ---- the date fields on their own: every date of birth and current   ---- *)
(* ---- date of the bounded ranges, the trigger run on an idle pipeline  ---- *)

BirthDates == Dates(FirstYear..(FirstYear + BirthSpan))
CurrentDates == Dates((FirstYear + BirthSpan)..(FirstYear + BirthSpan + TodaySpan))

\* The trigger assembles the document of a customer born on date_of_birth.
T_BuildPerson ==
    /\ person = NoPerson
    /\ person' = BuildPerson(date_of_birth, current_date)
    /\ UNCHANGED <<storeVars, writerVars, direct, listenerVars, sock, mainVars,
                   date_of_birth, current_date, sinkVars, writer2Vars>>

InitDates ==
    /\ customers = {}
    /\ retail_preferences = {}
    /\ marketing_preferences = {}
    /\ loyalty_members = {}
    /\ customer_json_profiles = <<>>
    /\ channel = <<>>
    /\ wpc = "idle"
    /\ windex = 0
    /\ profile = NoProfile
    /\ inserted_profile = Null
    /\ latest_json = Null
    /\ read_for = 0
    /\ w2pc = "idle"
    /\ w2index = 0
    /\ profile2 = NoProfile
    /\ inserted_profile2 = Null
    /\ latest_json2 = Null
    /\ read_for2 = 0
    /\ direct = 0
    /\ lpc = "unstarted"
    /\ listening = FALSE
    /\ sock = <<>>
    /\ notifies = <<>>
    /\ lerror = "none"
    /\ lraised = "none"
    /\ polled = 0
    /\ attempts = 0
    /\ received = <<>>
    /\ dispatched = <<>>
    /\ iteration = NoIteration
    /\ mpc = "generate"
    /\ setup_error = "none"
    /\ txWith = FALSE
    /\ \/ date_of_birth \in BirthDates /\ current_date \in CurrentDates
       \/ date_of_birth = ExampleBirth /\ current_date = ExampleToday
    /\ NotAfter(date_of_birth, current_date)
    /\ person = NoPerson
    /\ files = {}
    /\ clock = 1

NextDates == T_BuildPerson

SpecDates == InitDates /\ [][NextDates]_vars

(* ---- two instances of the program writing to the same store ----        *)
(* The second instance runs the same generate_and_store_profiles loop; its *)
(* calls of insert_profile are numbered after those of the first. The two  *)
(* writers alone are followed here: no listener, no other client.          *)
(* When "with conn:" is a transaction the model serialises the two         *)
(* transactions (see TxOpen), so last_updated, which is the time the       *)
(* transaction began, orders the documents as their commits do.            *)

CallNumber2 == NumProfiles + w2index

W2_Generate ==
    /\ Generating
    /\ w2pc = "idle"
    /\ w2index < NumProfiles
    /\ \E p \in Profiles : profile2' = p
    /\ w2index' = w2index + 1
    /\ inserted_profile2' = Null
    /\ w2pc' = "customers"
    /\ UNCHANGED <<storeVars, writerVars, latest_json2, read_for2, direct,
                   listenerVars, sock, mainVars, dateVars, sinkVars>>

W2_InsertCustomers ==
    LET row == CustomerRow(profile2.customer_id, CallNumber2) IN
    /\ Generating /\ ~TxOpen
    /\ w2pc = "customers"
    /\ ExecInsertCustomers(row)
    /\ IF CustomerConstraintsOK(row)
       THEN w2pc' = "retail" /\ UNCHANGED inserted_profile2
       ELSE w2pc' = "returned" /\ inserted_profile2' = FALSE
    /\ UNCHANGED <<writerVars, w2index, profile2, latest_json2, read_for2, direct,
                   listenerVars, mainVars, dateVars, sinkVars>>

W2_InsertRetail ==
    LET row == RetailRow(profile2.customer_id, profile2.shoe_size, CallNumber2) IN
    /\ Generating /\ ~TxOpen
    /\ w2pc = "retail"
    /\ IF txWith /\ ~RetailConstraintsOK(row)
       THEN Rollback(CallNumber2) ELSE ExecInsertRetail(row)
    /\ IF RetailConstraintsOK(row)
       THEN w2pc' = "marketing" /\ UNCHANGED inserted_profile2
       ELSE w2pc' = "returned" /\ inserted_profile2' = FALSE
    /\ UNCHANGED <<writerVars, w2index, profile2, latest_json2, read_for2, direct,
                   listenerVars, mainVars, dateVars, sinkVars>>

W2_InsertMarketing ==
    LET row == MarketingRow(profile2.customer_id, AdaptBoolean(profile2.consent),
                            CallNumber2) IN
    /\ Generating /\ ~TxOpen
    /\ w2pc = "marketing"
    /\ IF txWith /\ ~MarketingConstraintsOK(row)
       THEN Rollback(CallNumber2) ELSE ExecInsertMarketing(row)
    /\ IF MarketingConstraintsOK(row)
       THEN w2pc' = "loyalty" /\ UNCHANGED inserted_profile2
       ELSE w2pc' = "returned" /\ inserted_profile2' = FALSE
    /\ UNCHANGED <<writerVars, w2index, profile2, latest_json2, read_for2, direct,
                   listenerVars, mainVars, dateVars, sinkVars>>

W2_InsertLoyalty ==
    LET row == LoyaltyRow(profile2.loyalty_number_id, profile2.customer_id,
                          CallNumber2) IN
    /\ Generating /\ ~TxOpen
    /\ w2pc = "loyalty"
    /\ IF txWith /\ ~LoyaltyInsertOK(row)
       THEN Rollback(CallNumber2) ELSE ExecInsertLoyalty(row)
    /\ inserted_profile2' = LoyaltyInsertOK(row)
    /\ w2pc' = "returned"
    /\ UNCHANGED <<writerVars, w2index, profile2, latest_json2, read_for2, direct,
                   listenerVars, mainVars, dateVars, sinkVars>>

W2_AfterInsert ==
    /\ Generating
    /\ w2pc = "returned"
    /\ latest_json2' = IF inserted_profile2 = TRUE THEN get_latest_profile
                       ELSE latest_json2
    /\ read_for2' = IF inserted_profile2 = TRUE THEN profile2.customer_id
                    ELSE read_for2
    /\ w2pc' = AfterInsert(inserted_profile2 = TRUE)
    /\ profile2' = NoProfile
    /\ inserted_profile2' = Null
    /\ UNCHANGED <<storeVars, writerVars, w2index, direct, listenerVars, sock,
                   mainVars, dateVars, sinkVars>>

\* The store is set up, both instances are in their writer loop.
InitTwoWriters ==
    /\ customers = {}
    /\ retail_preferences = {}
    /\ marketing_preferences = {}
    /\ loyalty_members = {}
    /\ customer_json_profiles = <<>>
    /\ channel = <<>>
    /\ wpc = "idle" /\ w2pc = "idle"
    /\ windex = 0 /\ w2index = 0
    /\ profile = NoProfile /\ profile2 = NoProfile
    /\ inserted_profile = Null /\ inserted_profile2 = Null
    /\ latest_json = Null /\ latest_json2 = Null
    /\ read_for = 0 /\ read_for2 = 0
    /\ direct = 0
    /\ lpc = "unstarted"
    /\ listening = FALSE
    /\ sock = <<>>
    /\ notifies = <<>>
    /\ lerror = "none"
    /\ lraised = "none"
    /\ polled = 0
    /\ attempts = 0
    /\ received = <<>>
    /\ dispatched = <<>>
    /\ iteration = NoIteration
    /\ mpc = "generate"
    /\ setup_error = "none"
    /\ txWith \in BOOLEAN
    /\ date_of_birth = ExampleBirth
    /\ current_date = ExampleToday
    /\ person = NoPerson
    /\ files = {}
    /\ clock = 1

NextTwoWriters ==
    \/ W_Generate
    \/ W_InsertCustomers
    \/ W_InsertRetail
    \/ W_InsertMarketing
    \/ W_InsertLoyalty
    \/ W_AfterInsert
    \/ W2_Generate
    \/ W2_InsertCustomers
    \/ W2_InsertRetail
    \/ W2_InsertMarketing
    \/ W2_InsertLoyalty
    \/ W2_AfterInsert

SpecTwoWriters == InitTwoWriters /\ [][NextTwoWriters]_vars

(* ======================= the claims ======================= *)

DocRowsOf(c) ==
    {i \in 1..Len(customer_json_profiles) : customer_json_profiles[i].customer_id = c}
NotificationsOf(c) == {i \in 1..Len(channel) : channel[i].customer_id = c}
HandlerInvoked(entry) == entry.outcome \in {"ok", "handler_raised"}

\* C1: when insert_profile has inserted the four rows of a profile in order
\* and returned True, there is exactly one customer_json_profiles row for the
\* profile's customer, exactly one notification was published for it, and the
\* document's identification.customerId is the inserted customer_id.
C1_OneDocumentOneNotification ==
    (wpc = "returned" /\ inserted_profile = TRUE) =>
        LET c == profile.customer_id IN
        /\ Cardinality(DocRowsOf(c)) = 1
        /\ Cardinality(NotificationsOf(c)) = 1
        /\ \A i \in DocRowsOf(c) : customer_json_profiles[i].json_data.customerId = c

C1_Witness ==
    /\ wpc = "returned"
    /\ inserted_profile = TRUE
    /\ WrittenBy(loyalty_members, windex) # {}

\* C2 (as claimed): insert_profile is all-or-nothing: after it returned False
\* none of the rows it inserted is in the store, after it returned True all
\* four are.
C2_InsertProfileAtomic ==
    wpc = "returned" =>
        IF inserted_profile = TRUE
        THEN /\ WrittenBy(customers, windex) # {}
             /\ WrittenBy(retail_preferences, windex) # {}
             /\ WrittenBy(marketing_preferences, windex) # {}
             /\ WrittenBy(loyalty_members, windex) # {}
        ELSE /\ WrittenBy(customers, windex) = {}
             /\ WrittenBy(retail_preferences, windex) = {}
             /\ WrittenBy(marketing_preferences, windex) = {}
             /\ WrittenBy(loyalty_members, windex) = {}

\* C3 (as claimed): a customer for whom the customers, retail_preferences or
\* marketing_preferences row is missing has no document and no notification;
\* the trigger publishes nothing when its join is empty.
C3_NoNotificationWithoutAllRows ==
    \A c \in CustomerIds :
        (c \notin Ids(customers) \/ c \notin Ids(retail_preferences)
           \/ c \notin Ids(marketing_preferences))
        => (DocRowsOf(c) = {} /\ NotificationsOf(c) = {})

\* C4: whenever the listener is back at the wait (select), _conn.notifies is
\* empty and every notification of the batch found by the last poll has had
\* its pass of the inner loop: as many passes as the batch had notifications,
\* in order, the handler called for every decodable payload.
C4_DrainsAllBeforeWait ==
    lpc = "select" =>
        /\ notifies = <<>>
        /\ attempts = polled
        /\ Len(dispatched) = Len(received)
        /\ \A k \in 1..Len(received) :
              /\ dispatched[k].payload = received[k]
              /\ Decodable(received[k]) => HandlerInvoked(dispatched[k])

C4_Witness ==
    /\ lpc = "select"
    /\ polled = 2
    /\ attempts = 2
    /\ \A k \in 1..Len(dispatched) : HandlerInvoked(dispatched[k])

\* C5: a decode failure or a handler exception on notification K neither ends
\* the loop (the listener is closed only by a connection error) nor drops
\* notification K+1: K+1 is the next one handled, with the handler called if
\* it decodes, or it is still first in _conn.notifies.
C5_FailureDoesNotStopDelivery ==
    /\ lpc = "closed" => lerror = "connection"
    /\ \A k \in 1..Len(dispatched) :
          (dispatched[k].outcome # "ok" /\ k < Len(received)) =>
             IF k < Len(dispatched)
             THEN /\ dispatched[k + 1].payload = received[k + 1]
                  /\ Decodable(received[k + 1]) => HandlerInvoked(dispatched[k + 1])
             ELSE /\ notifies # <<>>
                  /\ Head(notifies) = received[k + 1]
                  /\ lpc \in {"drain", "poll", "closed"}

C5_Witness ==
    \E k \in 1..Len(dispatched) :
        /\ dispatched[k].outcome # "ok"
        /\ k < Len(dispatched)
        /\ dispatched[k + 1].outcome = "ok"
        /\ lpc = "select"

\* C6 (as claimed): every notification received leads to exactly one handler
\* invocation, never zero: when the listener is back at the wait, each
\* received notification has one pass in which the handler was called.
C6_OneHandlerCallPerNotification ==
    lpc = "select" =>
        /\ Len(dispatched) = Len(received)
        /\ \A k \in 1..Len(received) :
              /\ dispatched[k].payload = received[k]
              /\ HandlerInvoked(dispatched[k])

\* C7: a loyalty_members INSERT whose trigger run failed is not committed: no
\* loyalty_members row stems from a failed assembly, and every document and
\* every notification belongs to a committed loyalty_members row whose
\* trigger run completed.
C7_AssemblyAtomicWithInsert ==
    /\ \A l \in loyalty_members : l.asm # "failed"
    /\ \A i \in 1..Len(customer_json_profiles) :
          \E l \in loyalty_members :
              l.customer_id = customer_json_profiles[i].customer_id /\ l.asm = "ok"
    /\ \A i \in 1..Len(channel) :
          \E l \in loyalty_members :
              l.customer_id = channel[i].customer_id /\ l.asm \in {"ok", "empty"}

\* insert_profile has run its fourth INSERT with every constraint satisfied
\* and a shoe size the trigger cannot cast, and has returned False.
C7_Witness ==
    /\ wpc = "returned"
    /\ inserted_profile = FALSE
    /\ ~CastableToInteger(profile.shoe_size)
    /\ RetailRow(profile.customer_id, profile.shoe_size, windex) \in retail_preferences
    /\ WrittenBy(marketing_preferences, windex) # {}
    /\ profile.customer_id \notin Ids(loyalty_members)
    /\ profile.loyalty_number_id \notin {l.loyalty_number_id : l \in loyalty_members}
    /\ DocRowsOf(profile.customer_id) = {}
    /\ NotificationsOf(profile.customer_id) = {}

\* C8 (as claimed): every notification published for customer C carries the
\* document stored for C in customer_json_profiles, never a value that is
\* not in the table.
C8_PayloadIsStoredDocument ==
    \A i \in 1..Len(channel) :
        \E k \in DocRowsOf(channel[i].customer_id) :
            channel[i].payload = JsonbToText(customer_json_profiles[k].json_data)

\* C9: a customer_json_profiles row for customer C exists only if the
\* customers, retail_preferences, marketing_preferences and loyalty_members
\* rows of C all exist.
C9_DocumentNeedsAllFourRows ==
    \A c \in DocIds(customer_json_profiles) :
        /\ c \in Ids(customers)
        /\ c \in Ids(retail_preferences)
        /\ c \in Ids(marketing_preferences)
        /\ c \in Ids(loyalty_members)

\* One customer has a document (and all four rows); another has a customers
\* and a loyalty_members row, no retail_preferences row, and no document.
C9_Witness ==
    \E c, d \in CustomerIds :
        /\ DocRowsOf(c) # {}
        /\ d \in Ids(customers) /\ d \in Ids(loyalty_members)
        /\ d \notin Ids(retail_preferences)
        /\ DocRowsOf(d) = {}

OneDocumentPerCustomer ==
    \A i, k \in 1..Len(customer_json_profiles) :
        customer_json_profiles[i].customer_id = customer_json_profiles[k].customer_id
        => i = k

LoyaltyOf(table, c) == {l \in table : l.customer_id = c}
DocumentsOf(docs, c) == {docs[i] : i \in {k \in 1..Len(docs) : docs[k].customer_id = c}}
PublishedFor(ch, c) == Cardinality({i \in 1..Len(ch) : ch[i].customer_id = c})

\* C10: there is at most one customer_json_profiles row per customer, and once
\* a customer has a loyalty_members row no step changes that row, the
\* customer's document or the number of notifications published for the
\* customer: a second loyalty_members INSERT for the customer is rejected.
C10_OneDocumentNeverReplaced ==
    /\ []OneDocumentPerCustomer
    /\ [][\A c \in CustomerIds :
             LoyaltyOf(loyalty_members, c) # {} =>
                /\ LoyaltyOf(loyalty_members', c) = LoyaltyOf(loyalty_members, c)
                /\ DocumentsOf(customer_json_profiles', c)
                     = DocumentsOf(customer_json_profiles, c)
                /\ PublishedFor(channel', c) = PublishedFor(channel, c)]_vars

\* insert_profile has run its fourth INSERT for a customer who already had a
\* loyalty_members row (written by another client) and a document, and the
\* INSERT was rejected.
C10_Witness ==
    /\ wpc = "returned"
    /\ inserted_profile = FALSE
    /\ WrittenBy(marketing_preferences, windex) # {}
    /\ LoyaltyOf(loyalty_members, profile.customer_id) # {}
    /\ WrittenBy(loyalty_members, windex) = {}
    /\ DocRowsOf(profile.customer_id) # {}
    /\ profile.loyalty_number_id \notin {l.loyalty_number_id : l \in loyalty_members}

\* C11: a failed insert_profile (constraint violation, value the trigger
\* cannot cast) does not end generation: the step after a call that returned
\* False is the return to the head of the loop with main still in
\* generate_and_store_profiles, and main completes only once insert_profile
\* has been entered for every one of the NumProfiles profiles.
C11_InsertFailureDoesNotStopGeneration ==
    /\ [](mpc = "exited" => windex = NumProfiles)
    /\ [](wpc \in {"idle", "customers", "retail", "marketing", "loyalty", "returned"})
    /\ [][(wpc = "returned" /\ inserted_profile = FALSE /\ wpc' # wpc) =>
             (wpc' = "idle" /\ mpc' = "generate" /\ windex' = windex)]_vars

\* The first call failed (it left no loyalty_members row), and the second
\* call was made all the same and succeeded.
C11_Witness ==
    /\ NumProfiles >= 2
    /\ WrittenBy(loyalty_members, 1) = {}
    /\ WrittenBy(loyalty_members, 2) # {}
    /\ windex >= 2

\* C12 (as claimed): once the listener has ended with a connection error the
\* process fails, so the writer starts no further insert_profile.
C12_ListenerErrorStopsWriter ==
    [][lerror = "connection" => windex' = windex]_vars

\* C13: when a step of DatabaseControl.__init__ (create_database,
\* create_tables, setup_json_generation) has raised, main has failed: the
\* listener thread was never started, insert_profile was never entered and
\* nothing was written or published.
C13_SetupErrorIsFatal ==
    setup_error # "none" =>
        /\ mpc = "failed"
        /\ lpc = "unstarted"
        /\ ~listening
        /\ windex = 0 /\ wpc = "idle"
        /\ direct = 0
        /\ customers = {} /\ loyalty_members = {} /\ channel = <<>>

C13_Witness ==
    /\ setup_error = "setup_json_generation"
    /\ mpc = "failed"

MarketingOf(c) == {m \in marketing_preferences : m.customer_id = c}

\* C14: the document of a customer has consents.collect.val "y" when the
\* customer's marketing_preferences row has marketing_consent true and "n"
\* when it has marketing_consent false, and no document has another value.
C14_ConsentIsYOrN ==
    \A i \in 1..Len(customer_json_profiles) :
        LET doc == customer_json_profiles[i] IN
        /\ doc.json_data.val \in {"y", "n"}
        /\ \A m \in MarketingOf(doc.customer_id) :
              /\ m.marketing_consent = "true" => doc.json_data.val = "y"
              /\ m.marketing_consent = "false" => doc.json_data.val = "n"

\* Two documents, one of a customer who consented and one of a customer who
\* did not.
C14_Witness ==
    \E i, k \in 1..Len(customer_json_profiles) :
        /\ \E m \in MarketingOf(customer_json_profiles[i].customer_id) :
              m.marketing_consent = "true"
        /\ \E m \in MarketingOf(customer_json_profiles[k].customer_id) :
              m.marketing_consent = "false"
        /\ customer_json_profiles[i].json_data.val = "y"
        /\ customer_json_profiles[k].json_data.val = "n"

\* The n-th anniversary of dob falls on today or before it.
AnniversaryReached(dob, n, today) ==
    NotAfter([y |-> dob.y + n, m |-> dob.m, d |-> dob.d], today)

\* C15: for every date of birth and current date of the bounded ranges the
\* assembled document has birthYear equal to the year of birth,
\* birthDayAndMonth the five characters MM-DD with month and day of birth
\* zero-padded to two digits, and age the number of whole years completed:
\* the age-th anniversary has been reached and the next one has not.
C15_BirthFieldsAndAge ==
    person # NoPerson =>
        /\ person.birthYear = date_of_birth.y
        /\ Len(person.birthDayAndMonth) = 5
        /\ person.birthDayAndMonth[3] = "-"
        /\ CastableToInteger(SubSeq(person.birthDayAndMonth, 1, 2))
        /\ CastableToInteger(SubSeq(person.birthDayAndMonth, 4, 5))
        /\ CastToInteger(SubSeq(person.birthDayAndMonth, 1, 2)) = date_of_birth.m
        /\ CastToInteger(SubSeq(person.birthDayAndMonth, 4, 5)) = date_of_birth.d
        /\ person.age >= 0
        /\ AnniversaryReached(date_of_birth, person.age, current_date)
        /\ ~AnniversaryReached(date_of_birth, person.age + 1, current_date)

\* The scenario of the specification: born 1990-03-15, current date
\* 2024-06-01.
C15_Witness ==
    /\ date_of_birth = ExampleBirth
    /\ current_date = ExampleToday
    /\ person = [birthYear |-> 1990,
                 birthDayAndMonth |-> <<"0", "3", "-", "1", "5">>,
                 age |-> 34]

FilesNamed(name) == {f \in files : f.name = name}

\* The document a dict stands for, in the shape of json_data.
DocumentOf(data) ==
    [customerId |-> CastToInteger(data["customerId"].s),
     loyaltyId  |-> data["loyaltyId"].n,
     shoeSize   |-> data["shoeSize"].n,
     val        |-> data["val"].s[1]]

\* C16: for every notification the listener decoded and handed to
\* save_json_to_file with success, the file written exists, and its parsed
\* contents equal the decoded payload key for key and value for value
\* (strings stay strings, numbers stay numbers), which is the document
\* stored for that customer.
C16_RoundTrip ==
    \A k \in 1..Len(dispatched) :
        dispatched[k].outcome = "ok" =>
            /\ FilesNamed(dispatched[k].file) # {}
            /\ \A f \in FilesNamed(dispatched[k].file) :
                  /\ JsonLoads(f.content) = JsonLoads(dispatched[k].payload)
                  /\ \E i \in 1..Len(customer_json_profiles) :
                        /\ customer_json_profiles[i].json_data
                             = DocumentOf(JsonLoads(f.content))
                        /\ JsonbToText(customer_json_profiles[i].json_data)
                             = dispatched[k].payload

\* Two documents have gone through the pipeline into two files.
C16_Witness ==
    /\ Cardinality(files) = 2
    /\ \E k \in 1..Len(dispatched) :
          /\ dispatched[k].outcome = "ok"
          /\ JsonLoads(dispatched[k].payload)["shoeSize"] = PyInt(42)

SuccessfulSaves == {k \in 1..Len(dispatched) : dispatched[k].outcome = "ok"}

Subscribed == lpc \in {"select", "keepalive", "poll", "drain"}

\* C18: once subscribed the listener stays in the cycle of waiting and
\* draining; the only step out of it is a connection error, which closes
\* the connection; a pass of the inner loop, whatever its outcome, stays in
\* the cycle; and once closed the listener stays closed, does not listen
\* again and calls the handler no more.
C18_ListenerStateMachine ==
    /\ [](lpc = "closed" => (lerror = "connection" /\ ~listening))
    /\ [][(Subscribed /\ lpc' # lpc) =>
             \/ Subscribed'
             \/ lpc' = "closed" /\ lerror' = "connection" /\ ~listening'
                  /\ dispatched' = dispatched]_vars
    /\ [][(dispatched' # dispatched) => lpc' \in {"drain", "select"}]_vars
    /\ [][lpc = "closed" =>
             /\ lpc' = "closed"
             /\ ~listening'
             /\ dispatched' = dispatched
             /\ notifies' = notifies
             /\ files' = files]_vars

\* The listener has had a decode failure or a handler failure, went on, and
\* was later closed by a connection error while the writer inserts on.
C18_Witness ==
    /\ lpc = "closed"
    /\ \E k \in 1..Len(dispatched) : dispatched[k].outcome # "ok"
    /\ \E k \in 1..Len(dispatched) : dispatched[k].outcome = "ok"
    /\ wpc = "loyalty"

\* C19: the wait can always end (by data or by the timeout), and in every
\* pass of the loop SELECT 1 is sent exactly when select timed out: at the
\* liveness query the wait has ended by timeout, and when the pass reaches
\* poll() the query has been sent if and only if the wait ended by timeout.
C19_QueryExactlyOnTimeout ==
    /\ (ThreadAlive /\ lpc = "select") =>
          (ENABLED L_SelectTimeout \/ ENABLED L_SelectReady)
    /\ lpc = "keepalive" => (iteration.wait = "timeout" /\ ~iteration.queried)
    /\ lpc = "poll" =>
          /\ iteration.wait \in {"timeout", "ready"}
          /\ iteration.queried <=> iteration.wait = "timeout"

\* A pass whose wait ended with data ready and no query sent, after earlier
\* passes have received notifications.
C19_Witness ==
    /\ lpc = "poll"
    /\ iteration = [wait |-> "ready", queried |-> FALSE]
    /\ sock # <<>>
    /\ received # <<>>

\* C20: the read after a successful insert_profile returns the latest
\* document of the table, whoever wrote it: as long as the other instance
\* has not started writing, that is the document of the customer just
\* inserted; with both writing it can be the document of another customer
\* (the witness).
C20_LatestReadNotScoped ==
    /\ [](read_for # 0 => \E i \in 1..Len(customer_json_profiles) :
                             customer_json_profiles[i].json_data = latest_json)
    /\ [][(wpc = "returned" /\ inserted_profile = TRUE /\ wpc' # wpc) =>
             /\ latest_json' = customer_json_profiles[Len(customer_json_profiles)].json_data
             /\ read_for' = profile.customer_id
             /\ w2index = 0 => latest_json'.customerId = profile.customer_id]_vars
    /\ [][(w2pc = "returned" /\ inserted_profile2 = TRUE /\ w2pc' # w2pc) =>
             (windex = 0 => latest_json2'.customerId = profile2.customer_id)]_vars

\* The first writer has inserted customer A with success and its read has
\* returned the document of another customer, inserted meanwhile by the
\* second writer.
C20_Witness ==
    /\ read_for # 0
    /\ latest_json.customerId # read_for
    /\ \E l \in WrittenBy(loyalty_members, NumProfiles + 1) :
          l.customer_id = latest_json.customerId

\* The notifications that have reached the listening connection: read into
\* _conn.notifies already, or still unread on the socket.
Arrived == received \o sock

Range(seq) == {seq[i] : i \in 1..Len(seq)}

\* The payloads published for the customers of call n of insert_profile.
PayloadsOfCall(n) ==
    {channel[i].payload : i \in {k \in 1..Len(channel) :
        \E l \in WrittenBy(loyalty_members, n) :
            l.customer_id = channel[k].customer_id}}

\* C21 (as claimed): the listener has executed LISTEN before the first
\* insert_profile publishes, so the notification of the first inserted
\* profile reaches the listening connection.
C21_FirstNotificationReceived ==
    \A l \in WrittenBy(loyalty_members, 1) :
        l.asm = "ok" => PayloadsOfCall(1) \subseteq Range(Arrived)

\* C22 (as claimed): when the process has ended, no notification published
\* for a profile inserted by this run is left unread on the socket or
\* buffered in _conn.notifies, or in the pass of the loop that handles it:
\* each has been handed to the handler.
C22_NoUndeliveredAtExit ==
    mpc = "exited" =>
        \A n \in 1..NumProfiles :
            \A p \in PayloadsOfCall(n) :
                p \in Range(Arrived) =>
                    \E k \in 1..Len(dispatched) :
                        dispatched[k].payload = p /\ HandlerInvoked(dispatched[k])

Published == [i \in 1..Len(channel) |-> channel[i].payload]

\* C23: notifications are handled in the order in which they reached the
\* listening connection: that order is the order of publication (the
\* arrivals are one stretch of the channel), the k-th pass of the inner loop
\* takes the k-th arrival, and what waits in _conn.notifies are the
\* arrivals after it, in order.
C23_DispatchInArrivalOrder ==
    /\ \E a \in 1..(Len(Published) + 1) :
          Arrived = SubSeq(Published, a, a + Len(Arrived) - 1)
    /\ Len(dispatched) <= Len(received)
    /\ \A k \in 1..Len(dispatched) : dispatched[k].payload = received[k]
    /\ notifies = SubSeq(received, Len(dispatched) + 1, Len(received))

\* Two different notifications found by the same poll() have both been
\* handed to the handler, the one published first handled first.
C23_Witness ==
    /\ Len(dispatched) = 2
    /\ polled = 2
    /\ HandlerInvoked(dispatched[1]) /\ HandlerInvoked(dispatched[2])
    /\ dispatched[1].payload # dispatched[2].payload
    /\ \E i, k \in 1..Len(Published) :
          /\ i < k
          /\ Published[i] = dispatched[1].payload
          /\ Published[k] = dispatched[2].payload

\* C24 (as claimed): whatever ends start_listening, a failure to connect
\* included, the exception that reaches the caller is the psycopg2.Error
\* that occurred.
C24_ConnectErrorReachesCaller ==
    lerror = "connection" => lraised = "psycopg2.Error"

====
